---- MODULE Spec2Model ----
(***************************************************************************)
(* MoE grouped-GEMM runner (ort_fastertransformer::MoeGemmRunner) of       *)
(* onnxruntime/contrib_ops/cuda/moe/ft_moe/moe_gemm_kernels_template.h:    *)
(* architecture dispatch, tile/stage dispatch, the grouped-GEMM launcher,  *)
(* and run_gemm's probe / select / launch sequence.                        *)
(*                                                                         *)
(* One runner object is modelled.  Its element types (T, WeightType) are   *)
(* template parameters, fixed for the life of the object (variable path).  *)
(* A call is in progress while pc # "idle"; trace is the history of what   *)
(* the call did on the device (occupancy queries, launcher steps).         *)
(***************************************************************************)
EXTENDS Integers, Sequences, FiniteSets, TLC

VARIABLES
  sm_,                     \* MoeGemmRunner::sm_
  multi_processor_count_,  \* MoeGemmRunner::multi_processor_count_
  path,                    \* precision path fixed by <T, WeightType>
  pc,                      \* position of the call in progress
  args,                    \* arguments of the call in progress
  EpilogueTag,             \* template argument of run_gemm / dispatch_to_arch
  candidate_configs,       \* run_gemm local
  occupancies,             \* run_gemm local
  ii,                      \* run_gemm loop index (0-based, as in the code)
  chosen_config,           \* run_gemm local
  last_probe,              \* the last value written through an occupancy pointer
  dispatched,              \* configuration and mode of the call's last dispatch_to_arch
  err,                     \* the exception the call ended with, or "none"
  trace,                   \* history: device queries and launcher steps of the call
  threads                  \* the calls of the host threads sharing the runner: each
                           \* thread's position, arguments, run_gemm locals and history

vars == <<sm_, multi_processor_count_, path, pc, args, EpilogueTag,
          candidate_configs, occupancies, ii, chosen_config, last_probe, dispatched, err,
          trace, threads>>

----------------------------------------------------------------------------
(* Bounds of the model *)

MaxOcc == 1        \* compute_occupancy_for_kernel returns 0..MaxOcc
MaxActive == 3     \* GemmGrouped::maximum_active_blocks returns -1 (the query failed) or 0..MaxActive
MaxStages == 5     \* gemm_config.stages of a directly dispatched configuration: 1..MaxStages

SmValues == {69, 70, 75, 79, 80, 90}   \* sm_version values, on both sides of each band edge
MpcValues == {1, 3}                    \* multiprocessor counts of the device
\* (sm_version, multiprocessor count) of the devices a runner is initialized for; the
\* top tier, whose catalog is the longest, is run with one multiprocessor count
Devices == {d \in SmValues \X MpcValues : d[1] < 80 \/ d[1] >= 90 \/ d[2] = 3}
RowValues == <<16, 200>>               \* total_rows, and with each
StreamValues == <<1, 2>>               \* the cudaStream_t handle of the call
ExpertValues == {0, 1}                 \* num_experts, and entries of the row-boundary table

----------------------------------------------------------------------------
(* Enumerations *)

Paths == {"uniform", "quantized", "simt"}

TileConfigs ==
  {"Undefined", "ChooseWithHeuristic",
   "CtaShape128x128x8_WarpShape64x64x8",
   "CtaShape32x128x64_WarpShape32x32x64",
   "CtaShape64x128x64_WarpShape32x64x64",
   "CtaShape64x128x64_WarpShape64x32x64",
   "CtaShape128x128x64_WarpShape64x32x64",
   "CtaShape128x128x64_WarpShape128x32x64"}

SplitKStyles == {"NO_SPLIT_K", "SPLIT_K_SERIAL"}

ActivationTypes == {"Gelu", "Relu", "Silu", "Identity", "InvalidType", "OtherTag"}

Epilogues == {"EpilogueOpNoBias", "EpilogueOpBias", "EpilogueOpBiasReLU",
              "EpilogueOpBiasFtGelu", "EpilogueOpBiasSilu"}

Errors == {"activation", "arch", "tile_undefined", "tile_heuristic", "tile_invalid",
           "stages_config", "stages_arch", "split_k", "occupancy", "can_implement",
           "initialize", "run", "heuristic"}

CutlassGemmConfig(tile, style, factor, stages) ==
  [tile_config |-> tile, split_k_style |-> style, split_k_factor |-> factor, stages |-> stages]

\* a default-constructed CutlassGemmConfig
DefaultConfig == CutlassGemmConfig("ChooseWithHeuristic", "NO_SPLIT_K", -1, -1)

NoArgs == [entry |-> "none", activation_type |-> "InvalidType", biases |-> FALSE,
           num_experts |-> 0, table_len |-> 0, total_rows |-> 0, gemm_n |-> 0,
           gemm_k |-> 0, stream |-> 0]

Min(a, b) == IF a < b THEN a ELSE b

CeilDiv(a, b) == (a + b - 1) \div b

----------------------------------------------------------------------------
(* Results of the dispatch chain.  A dispatch either throws (err # "none") *)
(* or returns; occ is the value written through the occupancy pointer      *)
(* (-1: nothing written); ev is what it did on the device, in order.       *)

Throw(e, ev) == [err |-> e, occ |-> -1, ev |-> ev]

Return(occ, ev) == [err |-> "none", occ |-> occ, ev |-> ev]

\* the kernel type a launcher instantiation is compiled for
Kernel(arch, tile, Stages, epi) == [arch |-> arch, tile |-> tile, stages |-> Stages, epi |-> epi]

Event(op, kernel, a, gemm_config, val, ok) ==
  [op |-> op, kernel |-> kernel, cfg |-> gemm_config, val |-> val, ok |-> ok,
   stream |-> a.stream, biases |-> a.biases, num_experts |-> a.num_experts]

\* the results of the device and CUTLASS calls made by one launcher invocation
ExtProbe(o) == [occ |-> o, active |-> 0, can |-> TRUE, init |-> TRUE, run |-> TRUE]

ExtLaunch(m, c, i, r) == [occ |-> 0, active |-> m, can |-> c, init |-> i, run |-> r]

----------------------------------------------------------------------------
(* generic_moe_gemm_kernelLauncher *)

\* the launcher without its split-k check
LauncherNoSplitKCheck(kernel, a, gemm_config, multi_processor_count, probe, ext) ==
  IF probe
    THEN Return(ext.occ, <<Event("compute_occupancy", kernel, a, gemm_config, 0, TRUE)>>)
  ELSE
    LET occupancy == Min(2, ext.active)
        threadblock_count == multi_processor_count * occupancy
        e1 == Event("maximum_active_blocks", kernel, a, gemm_config, ext.active, occupancy # 0)
        e2 == Event("can_implement", kernel, a, gemm_config, threadblock_count, ext.can)
        e3 == Event("initialize", kernel, a, gemm_config, threadblock_count, ext.init)
        e4 == Event("run", kernel, a, gemm_config, threadblock_count, ext.run)
    IN IF occupancy = 0 THEN Throw("occupancy", <<e1>>)
       ELSE IF ~ext.can THEN Throw("can_implement", <<e1, e2>>)
       ELSE IF ~ext.init THEN Throw("initialize", <<e1, e2, e3>>)
       ELSE IF ~ext.run THEN Throw("run", <<e1, e2, e3, e4>>)
       ELSE Return(-1, <<e1, e2, e3, e4>>)

\* the launcher without the return that ends the occupancy query: it goes on to launch
LauncherProbeFallsThrough(kernel, a, gemm_config, multi_processor_count, probe, ext) ==
  IF gemm_config.split_k_style # "NO_SPLIT_K" THEN Throw("split_k", <<>>)
  ELSE
    LET occupancy == IF probe THEN 1 ELSE Min(2, ext.active)
        threadblock_count == multi_processor_count * occupancy
        e0 == IF probe
                THEN <<Event("compute_occupancy", kernel, a, gemm_config, 0, TRUE)>>
                ELSE <<>>
        e1 == Event("maximum_active_blocks", kernel, a, gemm_config, ext.active, occupancy # 0)
        e2 == Event("can_implement", kernel, a, gemm_config, threadblock_count, ext.can)
        e3 == Event("initialize", kernel, a, gemm_config, threadblock_count, ext.init)
        e4 == Event("run", kernel, a, gemm_config, threadblock_count, ext.run)
    IN IF occupancy = 0 THEN Throw("occupancy", e0 \o <<e1>>)
       ELSE IF ~ext.can THEN Throw("can_implement", e0 \o <<e1, e2>>)
       ELSE IF ~ext.init THEN Throw("initialize", e0 \o <<e1, e2, e3>>)
       ELSE IF ~ext.run THEN Throw("run", e0 \o <<e1, e2, e3, e4>>)
       ELSE Return(IF probe THEN ext.occ ELSE -1, e0 \o <<e1, e2, e3, e4>>)

\* the launcher without the throw on occupancy 0: it plans a launch of 0 threadblocks
LauncherNoOccupancyCheck(kernel, a, gemm_config, multi_processor_count, probe, ext) ==
  IF gemm_config.split_k_style # "NO_SPLIT_K" THEN Throw("split_k", <<>>)
  ELSE IF probe
    THEN Return(ext.occ, <<Event("compute_occupancy", kernel, a, gemm_config, 0, TRUE)>>)
  ELSE
    LET occupancy == Min(2, ext.active)
        threadblock_count == multi_processor_count * occupancy
        e1 == Event("maximum_active_blocks", kernel, a, gemm_config, ext.active, TRUE)
        e2 == Event("can_implement", kernel, a, gemm_config, threadblock_count, ext.can)
        e3 == Event("initialize", kernel, a, gemm_config, threadblock_count, ext.init)
        e4 == Event("run", kernel, a, gemm_config, threadblock_count, ext.run)
    IN IF ~ext.can THEN Throw("can_implement", <<e1, e2>>)
       ELSE IF ~ext.init THEN Throw("initialize", <<e1, e2, e3>>)
       ELSE IF ~ext.run THEN Throw("run", <<e1, e2, e3, e4>>)
       ELSE Return(-1, <<e1, e2, e3, e4>>)

\* the launcher calling gemm.run a second time when the first call fails
LauncherRetriesRun(kernel, a, gemm_config, multi_processor_count, probe, ext) ==
  IF gemm_config.split_k_style # "NO_SPLIT_K" THEN Throw("split_k", <<>>)
  ELSE IF probe
    THEN Return(ext.occ, <<Event("compute_occupancy", kernel, a, gemm_config, 0, TRUE)>>)
  ELSE
    LET occupancy == Min(2, ext.active)
        threadblock_count == multi_processor_count * occupancy
        e1 == Event("maximum_active_blocks", kernel, a, gemm_config, ext.active, occupancy # 0)
        e2 == Event("can_implement", kernel, a, gemm_config, threadblock_count, ext.can)
        e3 == Event("initialize", kernel, a, gemm_config, threadblock_count, ext.init)
        e4 == Event("run", kernel, a, gemm_config, threadblock_count, ext.run)
    IN IF occupancy = 0 THEN Throw("occupancy", <<e1>>)
       ELSE IF ~ext.can THEN Throw("can_implement", <<e1, e2>>)
       ELSE IF ~ext.init THEN Throw("initialize", <<e1, e2, e3>>)
       ELSE IF ~ext.run THEN Throw("run", <<e1, e2, e3, e4, e4>>)
       ELSE Return(-1, <<e1, e2, e3, e4>>)

generic_moe_gemm_kernelLauncher(kernel, a, gemm_config, multi_processor_count, probe, ext) ==
  IF gemm_config.split_k_style # "NO_SPLIT_K" THEN Throw("split_k", <<>>)
  ELSE IF probe
    THEN Return(ext.occ, <<Event("compute_occupancy", kernel, a, gemm_config, 0, TRUE)>>)
  ELSE
    LET occupancy == Min(2, ext.active)
        threadblock_count == multi_processor_count * occupancy
        e1 == Event("maximum_active_blocks", kernel, a, gemm_config, ext.active, occupancy # 0)
        e2 == Event("can_implement", kernel, a, gemm_config, threadblock_count, ext.can)
        e3 == Event("initialize", kernel, a, gemm_config, threadblock_count, ext.init)
        e4 == Event("run", kernel, a, gemm_config, threadblock_count, ext.run)
    IN IF occupancy = 0 THEN Throw("occupancy", <<e1>>)
       ELSE IF ~ext.can THEN Throw("can_implement", <<e1, e2>>)
       ELSE IF ~ext.init THEN Throw("initialize", <<e1, e2, e3>>)
       ELSE IF ~ext.run THEN Throw("run", <<e1, e2, e3, e4>>)
       ELSE Return(-1, <<e1, e2, e3, e4>>)

----------------------------------------------------------------------------
(* dispatch_stages: primary template and its two partial specializations *)

\* the deep-pipeline specialization enabled for Sm75 as well as Sm80
DispatchStagesSm75(arch, tile, Stages, epi, a, gemm_config, multi_processor_count, probe, ext) ==
  IF Stages = 2
    THEN generic_moe_gemm_kernelLauncher(Kernel(arch, tile, 2, epi), a, gemm_config,
                                         multi_processor_count, probe, ext)
  ELSE IF arch \in {"Sm75", "Sm80"} /\ Stages > 2
    THEN generic_moe_gemm_kernelLauncher(Kernel(arch, tile, Stages, epi), a, gemm_config,
                                         multi_processor_count, probe, ext)
  ELSE Throw("stages_arch", <<>>)

\* the depth-2 specialization written for Sm80 only
DispatchStagesDepth2Sm80(arch, tile, Stages, epi, a, gemm_config, multi_processor_count, probe, ext) ==
  IF arch = "Sm80" /\ Stages >= 2
    THEN generic_moe_gemm_kernelLauncher(Kernel("Sm80", tile, Stages, epi), a, gemm_config,
                                         multi_processor_count, probe, ext)
  ELSE Throw("stages_arch", <<>>)

dispatch_stages(arch, tile, Stages, epi, a, gemm_config, multi_processor_count, probe, ext) ==
  IF Stages = 2
    THEN generic_moe_gemm_kernelLauncher(Kernel(arch, tile, 2, epi), a, gemm_config,
                                         multi_processor_count, probe, ext)
  ELSE IF arch = "Sm80" /\ Stages > 2
    THEN generic_moe_gemm_kernelLauncher(Kernel("Sm80", tile, Stages, epi), a, gemm_config,
                                         multi_processor_count, probe, ext)
  ELSE Throw("stages_arch", <<>>)

(* dispatch_gemm_config *)

\* the switch with its default case falling back to depth 2
DispatchGemmConfigDefault2(arch, tile, epi, a, gemm_config, multi_processor_count, probe, ext) ==
  IF gemm_config.stages \in {2, 3, 4}
    THEN dispatch_stages(arch, tile, gemm_config.stages, epi, a, gemm_config,
                         multi_processor_count, probe, ext)
    ELSE dispatch_stages(arch, tile, 2, epi, a, gemm_config, multi_processor_count, probe, ext)

\* dispatch_gemm_config checking the split-k style itself, before the switch on stages
DispatchGemmConfigSplitKFirst(arch, tile, epi, a, gemm_config, multi_processor_count, probe, ext) ==
  IF gemm_config.split_k_style # "NO_SPLIT_K" THEN Throw("split_k", <<>>)
  ELSE IF gemm_config.stages \in {2, 3, 4}
    THEN dispatch_stages(arch, tile, gemm_config.stages, epi, a, gemm_config,
                         multi_processor_count, probe, ext)
    ELSE Throw("stages_config", <<>>)

dispatch_gemm_config(arch, tile, epi, a, gemm_config, multi_processor_count, probe, ext) ==
  IF gemm_config.stages \in {2, 3, 4}
    THEN dispatch_stages(arch, tile, gemm_config.stages, epi, a, gemm_config,
                         multi_processor_count, probe, ext)
    ELSE Throw("stages_config", <<>>)

----------------------------------------------------------------------------
(* dispatch_moe_gemm_to_cutlass: the three overloads, selected by <T, WeightType> *)

UniformTiles == {"CtaShape32x128x64_WarpShape32x32x64",
                 "CtaShape64x128x64_WarpShape32x64x64",
                 "CtaShape128x128x64_WarpShape64x32x64"}

\* the mixed-type overload written with the tile cases of the uniform one
QuantizedTilesOfUniform == UniformTiles

QuantizedTiles == {"CtaShape32x128x64_WarpShape32x32x64",
                   "CtaShape64x128x64_WarpShape64x32x64",
                   "CtaShape128x128x64_WarpShape128x32x64"}

SimtTiles == {"CtaShape128x128x8_WarpShape64x64x8"}

LegalTiles(p) ==
  CASE p = "uniform" -> UniformTiles
    [] p = "quantized" -> QuantizedTiles
    [] p = "simt" -> SimtTiles

\* the switch resolving ChooseWithHeuristic to the smallest tile instead of throwing
DispatchTileAutoChoose(p, arch, epi, a, gemm_config, multi_processor_count, probe, ext) ==
  IF gemm_config.tile_config \in LegalTiles(p)
    THEN dispatch_gemm_config(arch, gemm_config.tile_config, epi, a, gemm_config,
                              multi_processor_count, probe, ext)
  ELSE IF gemm_config.tile_config = "Undefined" THEN Throw("tile_undefined", <<>>)
  ELSE IF gemm_config.tile_config = "ChooseWithHeuristic"
    THEN dispatch_gemm_config(arch, IF p = "simt" THEN "CtaShape128x128x8_WarpShape64x64x8"
                                    ELSE "CtaShape32x128x64_WarpShape32x32x64",
                              epi, a, gemm_config, multi_processor_count, probe, ext)
  ELSE Throw("tile_invalid", <<>>)

\* the two tensor-core overloads sharing one list of tile cases
DispatchTileSharedCases(p, arch, epi, a, gemm_config, multi_processor_count, probe, ext) ==
  IF gemm_config.tile_config
       \in (IF p = "simt" THEN SimtTiles ELSE UniformTiles \cup QuantizedTiles)
    THEN dispatch_gemm_config(arch, gemm_config.tile_config, epi, a, gemm_config,
                              multi_processor_count, probe, ext)
  ELSE IF gemm_config.tile_config = "Undefined" THEN Throw("tile_undefined", <<>>)
  ELSE IF gemm_config.tile_config = "ChooseWithHeuristic" THEN Throw("tile_heuristic", <<>>)
  ELSE Throw("tile_invalid", <<>>)

dispatch_moe_gemm_to_cutlass(p, arch, epi, a, gemm_config, multi_processor_count, probe, ext) ==
  IF gemm_config.tile_config \in LegalTiles(p)
    THEN dispatch_gemm_config(arch, gemm_config.tile_config, epi, a, gemm_config,
                              multi_processor_count, probe, ext)
  ELSE IF gemm_config.tile_config = "Undefined" THEN Throw("tile_undefined", <<>>)
  ELSE IF gemm_config.tile_config = "ChooseWithHeuristic" THEN Throw("tile_heuristic", <<>>)
  ELSE Throw("tile_invalid", <<>>)

----------------------------------------------------------------------------
(* MoeGemmRunner::dispatch_to_arch *)

\* the last band without its upper edge: every sm >= 80 runs the Sm80 kernels
DispatchToArchOpenBand(p, sm, mpc, epi, a, gemm_config, probe, ext) ==
  IF sm >= 70 /\ sm < 75
    THEN dispatch_moe_gemm_to_cutlass(p, "Sm70", epi, a, gemm_config, mpc, probe, ext)
  ELSE IF sm >= 75 /\ sm < 80
    THEN dispatch_moe_gemm_to_cutlass(p, "Sm75", epi, a, gemm_config, mpc, probe, ext)
  ELSE IF sm >= 80
    THEN dispatch_moe_gemm_to_cutlass(p, "Sm80", epi, a, gemm_config, mpc, probe, ext)
  ELSE Throw("arch", <<>>)

\* the second band tested as sm > 75 when no occupancy pointer is passed
DispatchToArchLaunchBand(p, sm, mpc, epi, a, gemm_config, probe, ext) ==
  IF sm >= 70 /\ sm < 75
    THEN dispatch_moe_gemm_to_cutlass(p, "Sm70", epi, a, gemm_config, mpc, probe, ext)
  ELSE IF (IF probe THEN sm >= 75 ELSE sm > 75) /\ sm < 80
    THEN dispatch_moe_gemm_to_cutlass(p, "Sm75", epi, a, gemm_config, mpc, probe, ext)
  ELSE IF sm >= 80 /\ sm < 90
    THEN dispatch_moe_gemm_to_cutlass(p, "Sm80", epi, a, gemm_config, mpc, probe, ext)
  ELSE Throw("arch", <<>>)

dispatch_to_arch(p, sm, mpc, epi, a, gemm_config, probe, ext) ==
  IF sm >= 70 /\ sm < 75
    THEN dispatch_moe_gemm_to_cutlass(p, "Sm70", epi, a, gemm_config, mpc, probe, ext)
  ELSE IF sm >= 75 /\ sm < 80
    THEN dispatch_moe_gemm_to_cutlass(p, "Sm75", epi, a, gemm_config, mpc, probe, ext)
  ELSE IF sm >= 80 /\ sm < 90
    THEN dispatch_moe_gemm_to_cutlass(p, "Sm80", epi, a, gemm_config, mpc, probe, ext)
  ELSE Throw("arch", <<>>)

----------------------------------------------------------------------------
(* Configuration catalog and heuristic selector (cutlass_heuristic.h)      *)

is_weight_only(p) == p = "quantized"

only_simt_configs(p) == p = "simt"

get_candidate_tiles(weight_only, simt_only) ==
  IF simt_only THEN <<"CtaShape128x128x8_WarpShape64x64x8">>
  ELSE IF weight_only
    THEN <<"CtaShape32x128x64_WarpShape32x32x64",
           "CtaShape64x128x64_WarpShape64x32x64",
           "CtaShape128x128x64_WarpShape128x32x64">>
    ELSE <<"CtaShape32x128x64_WarpShape32x32x64",
           "CtaShape64x128x64_WarpShape32x64x64",
           "CtaShape128x128x64_WarpShape64x32x64">>

\* pipeline depths of the catalog: 2 always, 3 and 4 on the top tier with tensor cores
max_stages(sm, simt_only) == IF sm >= 80 /\ sm < 90 /\ ~simt_only THEN 4 ELSE 2

\* tiles in order, and for each tile the depths 2..max_stages in order
get_candidate_configs(sm, weight_only, simt_only) ==
  LET tiles == get_candidate_tiles(weight_only, simt_only)
      depth == max_stages(sm, simt_only) - 1
  IN [j \in 1..(Len(tiles) * depth) |->
        CutlassGemmConfig(tiles[((j - 1) \div depth) + 1], "NO_SPLIT_K", 1,
                          2 + ((j - 1) % depth))]

\* threadblock tile extents named by a tile tag
TileM(tile) ==
  CASE tile \in {"CtaShape32x128x64_WarpShape32x32x64"} -> 32
    [] tile \in {"CtaShape64x128x64_WarpShape32x64x64",
                 "CtaShape64x128x64_WarpShape64x32x64"} -> 64
    [] OTHER -> 128

TileN(tile) == 128

\* full waves of threadblocks the problem needs under a candidate
Waves(cfg, occupancy, m, n, mpc) ==
  CeilDiv(CeilDiv(m, TileM(cfg.tile_config)) * CeilDiv(n, TileN(cfg.tile_config)),
          occupancy * mpc)

\* the scan of the candidates from index j on; best is the index kept so far (0: none).
\* Candidates of occupancy 0 are skipped; a candidate replaces the one kept only when
\* it needs strictly fewer waves, so the earliest wins a tie.
RECURSIVE ScanCandidates(_, _, _, _, _, _, _)
ScanCandidates(cands, occs, m, n, mpc, j, best) ==
  IF j > Len(cands) THEN best
  ELSE IF occs[j] = 0 THEN ScanCandidates(cands, occs, m, n, mpc, j + 1, best)
  ELSE IF best = 0
         \/ Waves(cands[j], occs[j], m, n, mpc) < Waves(cands[best], occs[best], m, n, mpc)
    THEN ScanCandidates(cands, occs, m, n, mpc, j + 1, j)
    ELSE ScanCandidates(cands, occs, m, n, mpc, j + 1, best)

estimate_best_config_from_occupancies(cands, occs, m, n, k, num_experts, split_k_limit, workspace_bytes, mpc, weight_only) ==
  IF Len(occs) # Len(cands) THEN [err |-> "heuristic", cfg |-> DefaultConfig, idx |-> 0]
  ELSE LET best == ScanCandidates(cands, occs, m, n, mpc, 1, 0)
       IN IF best = 0
            THEN [err |-> "heuristic", cfg |-> DefaultConfig, idx |-> 0]
            ELSE [err |-> "none", cfg |-> cands[best], idx |-> best]

----------------------------------------------------------------------------
(* Arguments of the calls.  Where the catalog is short every combination  *)
(* of the fields' values is called; where it is long (the top tier with    *)
(* tensor cores) the entry point, the validity of the activation tag and   *)
(* the shape and stream are varied around BaseArgs.                        *)

BaseArgs == [entry |-> "moe_gemm_bias_act", activation_type |-> "Relu", biases |-> TRUE,
             num_experts |-> 1, table_len |-> 1, total_rows |-> 16, gemm_n |-> 128,
             gemm_k |-> 64, stream |-> 1]

ShortCatalog == 3

AllBiasActArgs ==
  {[BaseArgs EXCEPT !.activation_type = t, !.biases = b, !.num_experts = e, !.table_len = l,
                    !.total_rows = RowValues[j], !.stream = StreamValues[j]] :
     t \in ActivationTypes, b \in BOOLEAN, e \in ExpertValues, l \in ExpertValues,
     j \in 1..Len(RowValues)}

FewBiasActArgs ==
  {[BaseArgs EXCEPT !.activation_type = t] : t \in {"Relu", "InvalidType", "OtherTag"}}
  \cup {[BaseArgs EXCEPT !.total_rows = RowValues[j], !.stream = StreamValues[j]] :
          j \in 1..Len(RowValues)}

BiasActArgs(catalog) == IF Len(catalog) <= ShortCatalog THEN AllBiasActArgs ELSE FewBiasActArgs

\* moe_gemm takes neither a bias pointer nor an activation tag
AllMoeGemmArgs ==
  {[BaseArgs EXCEPT !.entry = "moe_gemm", !.activation_type = "Identity", !.biases = FALSE,
                    !.num_experts = e, !.table_len = l,
                    !.total_rows = RowValues[j], !.stream = StreamValues[j]] :
     e \in ExpertValues, l \in ExpertValues, j \in 1..Len(RowValues)}

FewMoeGemmArgs ==
  {[BaseArgs EXCEPT !.entry = "moe_gemm", !.activation_type = "Identity", !.biases = FALSE]}

MoeGemmArgs(catalog) == IF Len(catalog) <= ShortCatalog THEN AllMoeGemmArgs ELSE FewMoeGemmArgs

\* configurations handed directly to dispatch_to_arch
DispatchConfigs ==
  {CutlassGemmConfig(t, st, 1, sg) : t \in TileConfigs, st \in SplitKStyles, sg \in 1..MaxStages}

DispatchArgs == {[BaseArgs EXCEPT !.entry = "dispatch_to_arch"]}

\* epilogues dispatch_to_arch is instantiated with directly
DispatchEpilogues == {"EpilogueOpNoBias", "EpilogueOpBiasReLU"}

NoKernel == Kernel("none", "none", 0, "none")

NoProbe == [idx |-> -1, cfg |-> DefaultConfig, occ |-> -1]

NoDispatch == [cfg |-> DefaultConfig, probe |-> FALSE, made |-> FALSE]

Dispatch(gemm_config, probe) == [cfg |-> gemm_config, probe |-> probe, made |-> TRUE]

Zeros(n) == [j \in 1..n |-> 0]

\* host threads calling into one runner
Threads == {1, 2}

\* a thread that is not inside a call
IdleThread == [pc |-> "idle", args |-> NoArgs, EpilogueTag |-> "none",
               candidate_configs |-> <<>>, occupancies |-> <<>>, ii |-> 0,
               chosen_config |-> DefaultConfig, answers |-> <<>>,
               ext |-> ExtLaunch(0, TRUE, TRUE, TRUE), err |-> "none", trace |-> <<>>]

----------------------------------------------------------------------------
(* State machine *)

Init ==
  /\ \E d \in Devices :               \* both indeterminate until initialize() runs
       sm_ = d[1] /\ multi_processor_count_ = d[2]
  /\ path \in Paths
  /\ pc = "idle"
  /\ args = NoArgs
  /\ EpilogueTag = "none"
  /\ candidate_configs = <<>>
  /\ occupancies = <<>>
  /\ ii = 0
  /\ chosen_config = DefaultConfig
  /\ last_probe = NoProbe
  /\ dispatched = NoDispatch
  /\ err = "none"
  /\ trace = <<>>
  /\ threads = [t \in Threads |-> IdleThread]

\* MoeGemmRunner::initialize
Initialize(sm_version, device_mpc) ==
  /\ pc = "idle"
  /\ sm_' = sm_version
  /\ multi_processor_count_' = device_mpc
  /\ UNCHANGED <<path, pc, args, EpilogueTag, candidate_configs, occupancies, ii,
                 chosen_config, last_probe, dispatched, err, trace, threads>>

\* the call ends with exception e, its locals are destroyed
Fail(e) ==
  /\ pc' = "done"
  /\ err' = e
  /\ candidate_configs' = <<>>
  /\ occupancies' = <<>>
  /\ ii' = 0
  /\ chosen_config' = DefaultConfig
  /\ last_probe' = NoProbe

\* run_gemm, up to the loop: the catalog lookup and the occupancies vector
RunGemmEnter(a, epi) ==
  /\ args' = a
  /\ EpilogueTag' = epi
  /\ candidate_configs' = get_candidate_configs(sm_, is_weight_only(path),
                                                only_simt_configs(path))
  /\ occupancies' = Zeros(Len(candidate_configs'))
  /\ ii' = 0
  /\ chosen_config' = DefaultConfig
  /\ last_probe' = NoProbe
  /\ dispatched' = NoDispatch
  /\ err' = "none"
  /\ trace' = <<>>
  /\ pc' = "probe"

\* the switch with an unknown tag treated as Identity
ActivationEpilogueLenient(t) ==
  CASE t = "Relu" -> "EpilogueOpBiasReLU"
    [] t = "Gelu" -> "EpilogueOpBiasFtGelu"
    [] t = "Silu" -> "EpilogueOpBiasSilu"
    [] OTHER -> "EpilogueOpBias"

\* the switch with the bodies of the Gelu and Silu cases exchanged
ActivationEpilogueGeluSilu(t) ==
  CASE t = "Relu" -> "EpilogueOpBiasReLU"
    [] t = "Gelu" -> "EpilogueOpBiasSilu"
    [] t = "Silu" -> "EpilogueOpBiasFtGelu"
    [] t = "Identity" -> "EpilogueOpBias"
    [] OTHER -> "none"

ActivationEpilogue(t) ==
  CASE t = "Relu" -> "EpilogueOpBiasReLU"
    [] t = "Gelu" -> "EpilogueOpBiasFtGelu"
    [] t = "Silu" -> "EpilogueOpBiasSilu"
    [] t = "Identity" -> "EpilogueOpBias"
    [] OTHER -> "none"

\* MoeGemmRunner::moe_gemm_bias_act
MoeGemmBiasAct(a) ==
  /\ pc = "idle"
  /\ IF ActivationEpilogue(a.activation_type) # "none"
       THEN RunGemmEnter(a, ActivationEpilogue(a.activation_type))
       ELSE /\ args' = a
            /\ EpilogueTag' = "none"
            /\ trace' = <<>>
            /\ dispatched' = NoDispatch
            /\ Fail("activation")
  /\ UNCHANGED <<threads, sm_, multi_processor_count_, path>>

\* MoeGemmRunner::moe_gemm
MoeGemm(a) ==
  /\ pc = "idle"
  /\ RunGemmEnter([a EXCEPT !.biases = FALSE], "EpilogueOpNoBias")
  /\ UNCHANGED <<threads, sm_, multi_processor_count_, path>>

\* the occupancy probed for configuration cfg (-1: cfg is no candidate)
OccupancyOf(cfg, cands, occs) ==
  IF \E j \in 1..Len(cands) : cands[j] = cfg
    THEN occs[CHOOSE j \in 1..Len(cands) : cands[j] = cfg]
    ELSE -1

\* the selection keyed on the stream of the call: on stream 2 total_rows is not
\* handed to the selector (it ranks the candidates for a problem of 1 row)
RunGemmSelectByStream(occs, tr) ==
  LET r == estimate_best_config_from_occupancies(
             candidate_configs, occs, IF args.stream = 2 THEN 1 ELSE args.total_rows,
             args.gemm_n, args.gemm_k,
             args.num_experts, 1, 0, multi_processor_count_, is_weight_only(path))
  IN IF r.err # "none"
       THEN /\ Fail(r.err)
            /\ trace' = tr
       ELSE /\ chosen_config' = r.cfg
            /\ trace' = Append(tr, Event("select", NoKernel, args, r.cfg, OccupancyOf(r.cfg, candidate_configs, occs), TRUE))
            /\ occupancies' = <<>>
            /\ ii' = Len(candidate_configs)
            /\ last_probe' = [idx |-> ii, cfg |-> candidate_configs[ii + 1],
                               occ |-> occs[ii + 1]]
            /\ pc' = "launch"
            /\ UNCHANGED <<err, candidate_configs>>

\* run_gemm, after the loop: the heuristic selection over the filled vector occs.
\* occupancies is not read again after it; the history keeps the occupancy of the
\* selected candidate.
RunGemmSelect(occs, tr) ==
  LET r == estimate_best_config_from_occupancies(
             candidate_configs, occs, args.total_rows, args.gemm_n, args.gemm_k,
             args.num_experts, 1, 0, multi_processor_count_, is_weight_only(path))
  IN IF r.err # "none"
       THEN /\ Fail(r.err)
            /\ trace' = tr
       ELSE /\ chosen_config' = r.cfg
            /\ trace' = Append(tr, Event("select", NoKernel, args, r.cfg, OccupancyOf(r.cfg, candidate_configs, occs), TRUE))
            /\ occupancies' = <<>>
            /\ ii' = Len(candidate_configs)
            /\ last_probe' = [idx |-> ii, cfg |-> candidate_configs[ii + 1],
                               occ |-> occs[ii + 1]]
            /\ pc' = "launch"
            /\ UNCHANGED <<err, candidate_configs>>

\* the loop passing &occupancies[0] on every iteration
RunGemmProbeIndex0(o) ==
  /\ pc = "probe"
  /\ ii < Len(candidate_configs)
  /\ LET r == dispatch_to_arch(path, sm_, multi_processor_count_, EpilogueTag, args,
                               candidate_configs[ii + 1], TRUE, ExtProbe(o))
         occs == [occupancies EXCEPT ![1] = r.occ]
     IN /\ dispatched' = Dispatch(candidate_configs[ii + 1], TRUE)
        /\ IF r.err # "none"
          THEN /\ Fail(r.err)
               /\ trace' = trace \o r.ev
          ELSE IF ii + 1 < Len(candidate_configs)
            THEN /\ occupancies' = occs
                 /\ last_probe' = [idx |-> ii, cfg |-> candidate_configs[ii + 1], occ |-> r.occ]
                 /\ ii' = ii + 1
                 /\ trace' = trace \o r.ev
                 /\ UNCHANGED <<pc, err, candidate_configs, chosen_config>>
            ELSE RunGemmSelect(occs, trace \o r.ev)
  /\ UNCHANGED <<threads, sm_, multi_processor_count_, path, args, EpilogueTag>>

\* the loop catching the exception of a probe and leaving the candidate's occupancy 0
RunGemmProbeSkipsFailure(o) ==
  /\ pc = "probe"
  /\ ii < Len(candidate_configs)
  /\ LET r == dispatch_to_arch(path, sm_, multi_processor_count_, EpilogueTag, args,
                               candidate_configs[ii + 1], TRUE, ExtProbe(o))
         occs == [occupancies EXCEPT ![ii + 1] = IF r.err # "none" THEN 0 ELSE r.occ]
     IN /\ dispatched' = Dispatch(candidate_configs[ii + 1], TRUE)
        /\ IF ii + 1 < Len(candidate_configs)
            THEN /\ occupancies' = occs
                 /\ last_probe' = [idx |-> ii, cfg |-> candidate_configs[ii + 1],
                                    occ |-> occs[ii + 1]]
                 /\ ii' = ii + 1
                 /\ trace' = trace \o r.ev
                 /\ UNCHANGED <<pc, err, candidate_configs, chosen_config>>
            ELSE RunGemmSelect(occs, trace \o r.ev)
  /\ UNCHANGED <<threads, sm_, multi_processor_count_, path, args, EpilogueTag>>

\* run_gemm, one iteration of the probing loop; the iteration that probes the last
\* candidate leaves the loop and goes on to the selection
RunGemmProbe(o) ==
  /\ pc = "probe"
  /\ ii < Len(candidate_configs)
  /\ LET r == dispatch_to_arch(path, sm_, multi_processor_count_, EpilogueTag, args,
                               candidate_configs[ii + 1], TRUE, ExtProbe(o))
         occs == [occupancies EXCEPT ![ii + 1] = r.occ]
     IN /\ dispatched' = Dispatch(candidate_configs[ii + 1], TRUE)
        /\ IF r.err # "none"
          THEN /\ Fail(r.err)
               /\ trace' = trace \o r.ev
          ELSE IF ii + 1 < Len(candidate_configs)
            THEN /\ occupancies' = occs
                 /\ last_probe' = [idx |-> ii, cfg |-> candidate_configs[ii + 1], occ |-> r.occ]
                 /\ ii' = ii + 1
                 /\ trace' = trace \o r.ev
                 /\ UNCHANGED <<pc, err, candidate_configs, chosen_config>>
            ELSE RunGemmSelect(occs, trace \o r.ev)
  /\ UNCHANGED <<threads, sm_, multi_processor_count_, path, args, EpilogueTag>>

\* the second pass launching the first candidate instead of the chosen one
RunGemmLaunchFirstCandidate(ext) ==
  /\ pc = "launch"
  /\ LET r == dispatch_to_arch(path, sm_, multi_processor_count_, EpilogueTag, args,
                               candidate_configs[1], FALSE, ext)
     IN /\ trace' = trace \o r.ev
        /\ Fail(r.err)
  /\ dispatched' = Dispatch(candidate_configs[1], FALSE)
  /\ UNCHANGED <<threads, sm_, multi_processor_count_, path, args, EpilogueTag>>

\* run_gemm, the second dispatch_to_arch (no occupancy pointer), and the return
RunGemmLaunch(ext) ==
  /\ pc = "launch"
  /\ LET r == dispatch_to_arch(path, sm_, multi_processor_count_, EpilogueTag, args,
                               chosen_config, FALSE, ext)
     IN /\ trace' = trace \o r.ev
        /\ Fail(r.err)
  /\ dispatched' = Dispatch(chosen_config, FALSE)
  /\ UNCHANGED <<threads, sm_, multi_processor_count_, path, args, EpilogueTag>>

\* a single dispatch_to_arch<EpilogueTag> call of configuration gemm_config
DispatchToArch(a, epi, gemm_config, probe, ext) ==
  /\ pc = "idle"
  /\ LET r == dispatch_to_arch(path, sm_, multi_processor_count_, epi, a, gemm_config,
                               probe, ext)
     IN /\ trace' = r.ev
        /\ pc' = "done"
        /\ err' = r.err
        /\ last_probe' = IF probe /\ r.err = "none"
                            THEN [idx |-> 0, cfg |-> gemm_config, occ |-> r.occ]
                            ELSE NoProbe
  /\ dispatched' = Dispatch(gemm_config, probe)
  /\ UNCHANGED <<candidate_configs, occupancies, ii, chosen_config>>
  /\ args' = a
  /\ EpilogueTag' = epi
  /\ UNCHANGED <<threads, sm_, multi_processor_count_, path>>

\* the caller has the result (or the exception) and the runner is free again
CallReturns ==
  /\ pc = "done"
  /\ pc' = "idle"
  /\ args' = NoArgs
  /\ EpilogueTag' = "none"
  /\ err' = "none"
  /\ trace' = <<>>
  /\ last_probe' = NoProbe
  /\ dispatched' = NoDispatch
  /\ UNCHANGED <<threads, sm_, multi_processor_count_, path, candidate_configs, occupancies, ii,
                 chosen_config>>

\* results of the calls a launch makes; a call after the first failure is not made.
\* maximum_active_blocks returns an int: -1 when its device query fails
LaunchExts ==
  {ExtLaunch(0, TRUE, TRUE, TRUE)}
  \cup {ExtLaunch(m, c[1], c[2], c[3]) :
          m \in {-1} \cup 1..MaxActive,
          c \in {<<FALSE, TRUE, TRUE>>, <<TRUE, FALSE, TRUE>>, <<TRUE, TRUE, FALSE>>,
                 <<TRUE, TRUE, TRUE>>}}

\* the catalog of the runner's tier and precision path
Catalog == get_candidate_configs(sm_, is_weight_only(path), only_simt_configs(path))

Next ==
  \/ pc = "idle" /\ \E d \in Devices : Initialize(d[1], d[2])
  \/ pc = "idle" /\ \E a \in BiasActArgs(Catalog) : MoeGemmBiasAct(a)
  \/ pc = "idle" /\ \E a \in MoeGemmArgs(Catalog) : MoeGemm(a)
  \/ pc = "probe" /\ \E o \in 0..MaxOcc : RunGemmProbe(o)
  \/ pc = "launch" /\ \E ext \in LaunchExts : RunGemmLaunch(ext)
  \/ pc = "idle" /\ \E a \in DispatchArgs, epi \in DispatchEpilogues, c \in DispatchConfigs,
                         o \in 0..MaxOcc :
       DispatchToArch(a, epi, c, TRUE, ExtProbe(o))
  \/ pc = "idle" /\ \E a \in DispatchArgs, epi \in DispatchEpilogues, c \in DispatchConfigs,
                         ext \in LaunchExts :
       DispatchToArch(a, epi, c, FALSE, ext)
  \/ CallReturns

Spec == Init /\ [][Next]_vars

----------------------------------------------------------------------------
(* Several host threads calling into one initialized runner.  Each thread  *)
(* runs moe_gemm or moe_gemm_bias_act with its own stream and descriptor;  *)
(* the locals of run_gemm are per call (threads[t]); sm_,                  *)
(* multi_processor_count_ and the element types are the runner's, shared.  *)
(* The steps of the threads interleave at every call of dispatch_to_arch   *)
(* and of the selector.                                                    *)

\* architectures of the runner the threads share: a lower tier, and one outside the bands
ThreadSmValues == {75, 90}

\* thread t calls with a stream and a descriptor of its own (thread 1 calls
\* moe_gemm_bias_act, thread 2 moe_gemm)
ThreadArgs(t) == [BaseArgs EXCEPT !.total_rows = RowValues[t], !.stream = StreamValues[t]]

\* results of the calls a thread's launch makes
ThreadLaunchExts == {ExtLaunch(0, TRUE, TRUE, TRUE), ExtLaunch(MaxActive, TRUE, TRUE, TRUE),
                     ExtLaunch(MaxActive, TRUE, TRUE, FALSE)}

InitThreads ==
  /\ Init
  /\ sm_ \in ThreadSmValues

UnchangedCall == UNCHANGED <<pc, args, EpilogueTag, candidate_configs, occupancies, ii,
                             chosen_config, last_probe, dispatched, err, trace>>

\* MoeGemmRunner::initialize, while no thread is inside a call
ThreadInitialize(sm_version, device_mpc) ==
  /\ \A t \in Threads : threads[t].pc = "idle"
  /\ sm_' = sm_version
  /\ multi_processor_count_' = device_mpc
  /\ UNCHANGED <<path, threads>>
  /\ UnchangedCall

\* thread t ends its call with exception e
ThreadFail(t, e, tr) ==
  threads' = [threads EXCEPT ![t].pc = "done", ![t].err = e, ![t].trace = tr]

\* run_gemm of thread t, up to the loop
ThreadRunGemmEnter(t, a, epi) ==
  LET cands == get_candidate_configs(sm_, is_weight_only(path), only_simt_configs(path))
  IN threads' = [threads EXCEPT ![t] =
       [IdleThread EXCEPT !.pc = "probe", !.args = a, !.EpilogueTag = epi,
                          !.candidate_configs = cands, !.occupancies = Zeros(Len(cands))]]

\* MoeGemmRunner::moe_gemm_bias_act called by thread t
ThreadMoeGemmBiasAct(t, a) ==
  /\ threads[t].pc = "idle"
  /\ IF ActivationEpilogue(a.activation_type) # "none"
       THEN ThreadRunGemmEnter(t, a, ActivationEpilogue(a.activation_type))
       ELSE threads' = [threads EXCEPT ![t] =
              [IdleThread EXCEPT !.pc = "done", !.args = a, !.err = "activation"]]
  /\ UNCHANGED <<sm_, multi_processor_count_, path>>
  /\ UnchangedCall

\* MoeGemmRunner::moe_gemm called by thread t
ThreadMoeGemm(t, a) ==
  /\ threads[t].pc = "idle"
  /\ ThreadRunGemmEnter(t, [a EXCEPT !.entry = "moe_gemm", !.activation_type = "Identity",
                                     !.biases = FALSE], "EpilogueOpNoBias")
  /\ UNCHANGED <<sm_, multi_processor_count_, path>>
  /\ UnchangedCall

\* the occupancies vector as one static vector of the runner: a probe of any thread
\* writes its result into the vector every call in the loop reads
ThreadProbeStaticOccupancies(t, o) ==
  LET c == threads[t]
  IN /\ c.pc = "probe"
     /\ c.ii < Len(c.candidate_configs)
     /\ LET r == dispatch_to_arch(path, sm_, multi_processor_count_, c.EpilogueTag, c.args,
                                  c.candidate_configs[c.ii + 1], TRUE, ExtProbe(o))
        IN IF r.err # "none"
             THEN ThreadFail(t, r.err, c.trace \o r.ev)
             ELSE threads' = [u \in Threads |->
                    IF u = t
                      THEN [c EXCEPT !.occupancies[c.ii + 1] = r.occ,
                                     !.answers = Append(c.answers, o),
                                     !.ii = c.ii + 1, !.trace = c.trace \o r.ev]
                    ELSE IF threads[u].pc = "probe"
                      THEN [threads[u] EXCEPT !.occupancies[c.ii + 1] = r.occ]
                      ELSE threads[u]]
     /\ UNCHANGED <<sm_, multi_processor_count_, path>>
     /\ UnchangedCall

\* run_gemm of thread t, one iteration of the probing loop; answers keeps what the
\* device answered to the thread's queries
ThreadProbe(t, o) ==
  LET c == threads[t]
  IN /\ c.pc = "probe"
     /\ c.ii < Len(c.candidate_configs)
     /\ LET r == dispatch_to_arch(path, sm_, multi_processor_count_, c.EpilogueTag, c.args,
                                  c.candidate_configs[c.ii + 1], TRUE, ExtProbe(o))
        IN IF r.err # "none"
             THEN ThreadFail(t, r.err, c.trace \o r.ev)
             ELSE threads' = [threads EXCEPT ![t] =
                    [c EXCEPT !.occupancies[c.ii + 1] = r.occ,
                              !.answers = Append(c.answers, o),
                              !.ii = c.ii + 1, !.trace = c.trace \o r.ev]]
     /\ UNCHANGED <<sm_, multi_processor_count_, path>>
     /\ UnchangedCall

\* run_gemm of thread t, after the loop: the heuristic selection
ThreadSelect(t) ==
  LET c == threads[t]
  IN /\ c.pc = "probe"
     /\ c.ii = Len(c.candidate_configs)
     /\ LET r == estimate_best_config_from_occupancies(
                   c.candidate_configs, c.occupancies, c.args.total_rows, c.args.gemm_n,
                   c.args.gemm_k, c.args.num_experts, 1, 0, multi_processor_count_,
                   is_weight_only(path))
        IN IF r.err # "none"
             THEN ThreadFail(t, r.err, c.trace)
             ELSE threads' = [threads EXCEPT ![t] =
                    [c EXCEPT !.pc = "launch", !.chosen_config = r.cfg,
                              !.trace = Append(c.trace,
                                 Event("select", NoKernel, c.args, r.cfg,
                                       OccupancyOf(r.cfg, c.candidate_configs, c.occupancies),
                                       TRUE))]]
     /\ UNCHANGED <<sm_, multi_processor_count_, path>>
     /\ UnchangedCall

\* run_gemm of thread t, the second dispatch_to_arch, and the return
ThreadLaunch(t, ext) ==
  LET c == threads[t]
  IN /\ c.pc = "launch"
     /\ LET r == dispatch_to_arch(path, sm_, multi_processor_count_, c.EpilogueTag, c.args,
                                  c.chosen_config, FALSE, ext)
        IN threads' = [threads EXCEPT ![t] =
             [c EXCEPT !.pc = "done", !.err = r.err, !.ext = ext, !.trace = c.trace \o r.ev]]
     /\ UNCHANGED <<sm_, multi_processor_count_, path>>
     /\ UnchangedCall

\* the caller of thread t has the result (or the exception); the call's locals are gone
ThreadReturns(t) ==
  /\ threads[t].pc = "done"
  /\ threads' = [threads EXCEPT ![t] = IdleThread]
  /\ UNCHANGED <<sm_, multi_processor_count_, path>>
  /\ UnchangedCall

NextThreads ==
  \/ \E d \in ThreadSmValues \X MpcValues : ThreadInitialize(d[1], d[2])
  \/ \E t \in {1} : ThreadMoeGemmBiasAct(t, ThreadArgs(t))
  \/ \E t \in {2} : ThreadMoeGemm(t, ThreadArgs(t))
  \/ \E t \in Threads, o \in 0..MaxOcc : ThreadProbe(t, o)
  \/ \E t \in Threads : ThreadSelect(t)
  \/ \E t \in Threads, ext \in ThreadLaunchExts : ThreadLaunch(t, ext)
  \/ \E t \in Threads : ThreadReturns(t)

SpecThreads == InitThreads /\ [][NextThreads]_vars

----------------------------------------------------------------------------
(* Vocabulary of the properties *)

Supported(sm) == sm >= 70 /\ sm < 90

LowerTier(sm) == sm >= 70 /\ sm < 80

TopTier(sm) == sm >= 80 /\ sm < 90

\* errors of an invalid configuration
ConfigErrors == {"tile_undefined", "tile_heuristic", "tile_invalid", "stages_config",
                 "stages_arch", "split_k"}

\* steps of the launcher in launch mode
LaunchOps == {"maximum_active_blocks", "can_implement", "initialize", "run"}

\* positions of the history at which a kernel launch was issued (run succeeded)
Launches == {k \in 1..Len(trace) : trace[k].op = "run" /\ trace[k].ok}

\* positions of the history at which the occupancy of a kernel was queried
Probes == {k \in 1..Len(trace) : trace[k].op = "compute_occupancy"}

Selections == {k \in 1..Len(trace) : trace[k].op = "select"}

\* a dispatch_to_arch call has ended by throwing or returning
DispatchEnded == pc = "done" /\ dispatched.made /\ err # "heuristic"

\* the call in progress entered run_gemm through a public entry point
RunCall == args.entry \in {"moe_gemm", "moe_gemm_bias_act"}

----------------------------------------------------------------------------
(* C1: a dispatch of a configuration whose stages is not 2, 3 or 4 ends in *)
(* an error with nothing done on the device (no occupancy query, no        *)
(* launch); on a supported architecture the error is a configuration       *)
(* error, and with a tile tag legal for the path it is the error of        *)
(* dispatch_gemm_config.                                                   *)
C1_StagesOutsideRangeRejected ==
  (DispatchEnded /\ dispatched.cfg.stages \notin {2, 3, 4}) =>
    /\ err \in ConfigErrors \cup {"arch"}
    /\ trace = <<>>
    /\ Supported(sm_) => err \in ConfigErrors \ {"stages_arch", "split_k"}
    /\ (Supported(sm_) /\ dispatched.cfg.tile_config \in LegalTiles(path))
         => err = "stages_config"

C1_Witness ==
  /\ DispatchEnded
  /\ dispatched.cfg.stages = 5
  /\ dispatched.cfg.tile_config \in LegalTiles(path)
  /\ TopTier(sm_)
  /\ err = "stages_config"

(* C2: on the tiers sm in [70,75) and [75,80) a dispatch of stages 3 or 4  *)
(* ends in a configuration error without entering the launcher (with a     *)
(* legal tile tag: the error of dispatch_stages); on the tier [80,90) the  *)
(* same dispatch with a legal tile tag and no split-k enters the launcher. *)
C2_DeepPipelineOnlyOnTopTier ==
  (DispatchEnded /\ dispatched.cfg.stages \in {3, 4}) =>
    /\ LowerTier(sm_) =>
         /\ err \in ConfigErrors \ {"split_k", "stages_config"}
         /\ trace = <<>>
         /\ dispatched.cfg.tile_config \in LegalTiles(path) => err = "stages_arch"
    /\ (TopTier(sm_) /\ dispatched.cfg.tile_config \in LegalTiles(path)
          /\ dispatched.cfg.split_k_style = "NO_SPLIT_K")
         => (trace # <<>> /\ err \notin ConfigErrors)

C2_Witness ==
  /\ DispatchEnded
  /\ sm_ = 79
  /\ dispatched.cfg.stages = 3
  /\ dispatched.cfg.split_k_style = "NO_SPLIT_K"
  /\ err = "stages_arch"

(* C3: moe_gemm_bias_act with an activation tag other than Identity, Relu, *)
(* Gelu and Silu throws before the catalog is read, before any occupancy   *)
(* query and before any launch, and runs under no epilogue.                *)
C3_InvalidActivationRejected ==
  (pc # "idle" /\ args.entry = "moe_gemm_bias_act"
     /\ args.activation_type \notin {"Identity", "Relu", "Gelu", "Silu"}) =>
    /\ pc = "done"
    /\ err = "activation"
    /\ trace = <<>>
    /\ ~dispatched.made
    /\ EpilogueTag = "none"

C3_Witness ==
  /\ pc = "done"
  /\ args.entry = "moe_gemm_bias_act"
  /\ args.activation_type = "InvalidType"
  /\ err = "activation"

(* C4: with sm_ outside [70,90) every dispatch_to_arch call throws the     *)
(* unsupported-architecture error and nothing is done on the device.       *)
C4_UnsupportedArchRejected ==
  (~Supported(sm_) /\ dispatched.made) =>
    /\ pc = "done"
    /\ err = "arch"
    /\ trace = <<>>

C4_Witness ==
  /\ sm_ = 90
  /\ dispatched.made
  /\ RunCall
  /\ err = "arch"

(* C5: on every supported tier and every precision path a dispatch of tile *)
(* tag Undefined or ChooseWithHeuristic throws its own error and nothing   *)
(* is done on the device.                                                  *)
C5_PlaceholderTileRejected ==
  (Supported(sm_) /\ dispatched.made
     /\ dispatched.cfg.tile_config \in {"Undefined", "ChooseWithHeuristic"}) =>
    /\ pc = "done"
    /\ err = (IF dispatched.cfg.tile_config = "Undefined"
                THEN "tile_undefined" ELSE "tile_heuristic")
    /\ trace = <<>>

C5_Witness ==
  /\ DispatchEnded
  /\ path = "simt"
  /\ LowerTier(sm_)
  /\ dispatched.cfg.tile_config = "ChooseWithHeuristic"
  /\ dispatched.cfg.stages = 2
  /\ err = "tile_heuristic"

(* C6: a dispatch of a configuration with a split-k style other than       *)
(* NO_SPLIT_K throws in probe mode and in launch mode alike (the split-k   *)
(* error when the configuration gets as far as the launcher), and every    *)
(* occupancy query and every launcher step, so every launch, is made for a *)
(* configuration of style NO_SPLIT_K.                                      *)
C6_NoSplitK ==
  /\ (DispatchEnded /\ dispatched.cfg.split_k_style # "NO_SPLIT_K") =>
       /\ err # "none"
       /\ trace = <<>>
       /\ (Supported(sm_) /\ dispatched.cfg.tile_config \in LegalTiles(path)
             /\ (dispatched.cfg.stages = 2
                   \/ (TopTier(sm_) /\ dispatched.cfg.stages \in {3, 4})))
            => err = "split_k"
  /\ \A k \in 1..Len(trace) : trace[k].cfg.split_k_style = "NO_SPLIT_K"

C6_Witness ==
  /\ DispatchEnded
  /\ dispatched.probe
  /\ dispatched.cfg.split_k_style = "SPLIT_K_SERIAL"
  /\ err = "split_k"

(* C7: a call of moe_gemm or moe_gemm_bias_act with num_experts = 0, or    *)
(* with a row-boundary table whose size differs from num_experts, is       *)
(* rejected before any occupancy query and before any launch.              *)
C7_BadDescriptorRejected ==
  (RunCall /\ pc # "idle"
     /\ (args.num_experts = 0 \/ args.table_len # args.num_experts)) =>
    /\ trace = <<>>
    /\ pc = "done" => err # "none"

(* C8: a run_gemm that returns without error has issued exactly one kernel *)
(* launch, as its last step and on the stream of the call; one that throws *)
(* has issued none; no launch is issued before the second pass, and a      *)
(* dispatch in probe mode issues none.                                     *)
C8_ExactlyOneLaunch ==
  /\ RunCall =>
       /\ (pc = "done" /\ err = "none") =>
            /\ Cardinality(Launches) = 1
            /\ Launches = {Len(trace)}
            /\ trace[Len(trace)].stream = args.stream
       /\ (pc = "done" /\ err # "none") => Launches = {}
       /\ pc \in {"probe", "launch"} => Launches = {}
  /\ (dispatched.made /\ dispatched.probe) =>
       \A k \in 1..Len(trace) : trace[k].op \notin LaunchOps

C8_Witness ==
  /\ RunCall
  /\ pc = "done"
  /\ err = "none"
  /\ Len(Catalog) = 9
  /\ Cardinality(Probes) = 9
  /\ args.stream = 2
  /\ Cardinality(Launches) = 1

(* C9: in run_gemm the candidates of the catalog are probed once each, in  *)
(* catalog order, each result stored at the candidate's own index of       *)
(* occupancies; the selection comes after the probe of the last candidate; *)
(* the launcher's launch steps come after the selection and are made for   *)
(* the selected configuration.                                             *)
C9_ProbeSelectLaunchOrder ==
  RunCall =>
    LET cat == Catalog
        n == Len(cat)
    IN /\ pc = "probe" =>
            /\ candidate_configs = cat
            /\ Len(occupancies) = n
            /\ Len(trace) = ii
            /\ ii > 0 => last_probe = [idx |-> ii - 1, cfg |-> cat[ii],
                                       occ |-> occupancies[ii]]
            /\ \A k \in (ii + 1)..n : occupancies[k] = 0
       /\ \A k \in Probes : k <= n /\ trace[k].cfg = cat[k]
       /\ \A k \in 1..Len(trace) : k <= n => k \in Probes
       /\ \A k \in Selections :
            /\ k = n + 1
            /\ \E j \in 1..n : cat[j] = trace[k].cfg
       /\ \A k \in 1..Len(trace) :
            trace[k].op \in LaunchOps =>
              /\ k > n + 1
              /\ Selections = {n + 1}
              /\ trace[k].cfg = trace[n + 1].cfg
       /\ pc = "launch" =>
            /\ Selections = {Len(trace)}
            /\ chosen_config = trace[Len(trace)].cfg

C9_Witness ==
  /\ RunCall
  /\ pc = "done"
  /\ err = "none"
  /\ Len(Catalog) = 9
  /\ Selections = {10}
  /\ Launches = {14}
  /\ trace[10].cfg = Catalog[5]

(* C10: the configuration the selector returns is a candidate whose probed *)
(* occupancy is not 0, and the second pass of run_gemm dispatches that     *)
(* configuration and no other.                                             *)
C10_ZeroOccupancyNeverSelected ==
  RunCall =>
    /\ \A k \in Selections :
         /\ trace[k].val > 0
         /\ \A l \in (k + 1)..Len(trace) : trace[l].cfg = trace[k].cfg
         /\ (pc = "done" /\ dispatched.made) =>
              (~dispatched.probe /\ dispatched.cfg = trace[k].cfg)
    /\ pc = "launch" =>
         /\ Selections # {}
         /\ last_probe.occ = 0 => chosen_config # last_probe.cfg

C10_Witness ==
  /\ RunCall
  /\ pc = "done"
  /\ Len(Catalog) = 9
  /\ Launches # {}
  /\ trace[10].cfg = Catalog[9]
  /\ trace[10].val = 1

(* C11: when no candidate has a nonzero occupancy the call ends in the     *)
(* selector's error: all candidates were probed, nothing was selected and  *)
(* no launcher step was made; the step that ends the probing loop with     *)
(* every earlier occupancy 0 either fails so or selects the last           *)
(* candidate, whose occupancy is then not 0.  When maximum_active_blocks   *)
(* is 0 for the configuration to launch, that query is the last thing the  *)
(* call does, it ends in the launcher's resource error and no launch is    *)
(* issued.                                                                 *)
C11_NoViableConfigurationIsFatal ==
  /\ [](/\ (RunCall /\ pc = "done" /\ err = "heuristic") =>
            /\ Cardinality(Probes) = Len(Catalog)
            /\ Len(trace) = Len(Catalog)
            /\ dispatched.cfg = Catalog[Len(Catalog)]
            /\ dispatched.probe
        /\ \A k \in 1..Len(trace) :
             (trace[k].op = "maximum_active_blocks" /\ trace[k].val = 0) =>
               /\ pc = "done"
               /\ err = "occupancy"
               /\ k = Len(trace)
               /\ Launches = {})
  /\ [][(RunCall /\ Supported(sm_) /\ pc = "probe" /\ ii + 1 = Len(candidate_configs)
           /\ \A k \in 1..ii : occupancies[k] = 0) =>
          \/ /\ pc' = "launch"
             /\ last_probe'.occ > 0
             /\ chosen_config' = candidate_configs[Len(candidate_configs)]
          \/ /\ pc' = "done"
             /\ err' = "heuristic"
             /\ \A k \in 1..Len(trace') : trace'[k].op = "compute_occupancy"]_vars

C11_Witness ==
  /\ RunCall
  /\ pc = "done"
  /\ err = "heuristic"
  /\ Len(Catalog) = 9
  /\ Cardinality(Probes) = 9

\* the candidate the selector's contract names for occupancies occs: among the
\* candidates of nonzero occupancy one of the fewest waves, the earliest of these
SelectedBy(cands, occs, m, n, mpc) ==
  LET viable == {j \in 1..Len(cands) : occs[j] > 0}
      w(j) == Waves(cands[j], occs[j], m, n, mpc)
  IN cands[CHOOSE j \in viable : \A l \in viable : w(j) < w(l) \/ (w(j) = w(l) /\ j <= l)]

\* the error a launcher invocation ends with, read off its last step
OutcomeOf(tr) ==
  IF tr[Len(tr)].ok THEN "none"
  ELSE CASE tr[Len(tr)].op = "maximum_active_blocks" -> "occupancy"
         [] OTHER -> tr[Len(tr)].op

(* C12: the configuration run_gemm selects is a function of the candidates, *)
(* the probed occupancies, total_rows, gemm_n and the multiprocessor count  *)
(* alone (so two runs that agree on these select the same configuration);   *)
(* the selection fails only when no occupancy is nonzero; the second pass   *)
(* dispatches the selected configuration and its outcome is the one the     *)
(* device's answers to that launch determine.                               *)
C12_SelectionDeterministic ==
  [][/\ (RunCall /\ pc = "probe" /\ pc' = "launch") =>
          LET occs == [occupancies EXCEPT ![Len(candidate_configs)] = last_probe'.occ]
          IN chosen_config' = SelectedBy(candidate_configs, occs, args.total_rows,
                                         args.gemm_n, multi_processor_count_)
     /\ (RunCall /\ pc = "probe" /\ pc' = "done" /\ err' = "heuristic") =>
          \A k \in 1..ii : occupancies[k] = 0
     /\ (RunCall /\ pc = "launch" /\ pc' = "done") =>
          /\ dispatched' = Dispatch(chosen_config, FALSE)
          /\ Len(trace') > Len(trace)
          /\ err' = OutcomeOf(trace')]_vars

C12_Witness ==
  /\ RunCall
  /\ pc = "launch"
  /\ Len(Catalog) = 9
  /\ args.total_rows = 200
  /\ chosen_config = Catalog[7]
  /\ last_probe.occ = 0

\* the maximum_active_blocks query of the launcher invocation step k belongs to
QueryOf(k) == CHOOSE j \in 1..k : /\ trace[j].op = "maximum_active_blocks"
                                  /\ \A l \in (j + 1)..k : trace[l].op # "maximum_active_blocks"

C14_EpilogueFromBiasPresence ==
  (RunCall /\ pc # "idle" /\ EpilogueTag # "none") =>
    /\ EpilogueTag = (IF args.biases THEN ActivationEpilogue(args.activation_type)
                                     ELSE "EpilogueOpNoBias")
    /\ \A k \in 1..Len(trace) :
         trace[k].kernel # NoKernel =>
           /\ trace[k].kernel.epi = EpilogueTag
           /\ trace[k].biases = args.biases

(* C15: on the simt-only path a dispatch on a supported tier does          *)
(* something on the device only for the tile 128x128x8 with warp 64x64x8,  *)
(* and a dispatch of a pipeline depth greater than 2 ends in a             *)
(* configuration error with nothing done on the device, on the top tier    *)
(* too.                                                                    *)
C15_SimtOneTileDepth2Only ==
  (DispatchEnded /\ path = "simt" /\ Supported(sm_)) =>
    /\ trace # <<>> => dispatched.cfg.tile_config = "CtaShape128x128x8_WarpShape64x64x8"
    /\ dispatched.cfg.stages > 2 =>
         /\ err \in ConfigErrors
         /\ trace = <<>>

\* the architecture tag sm is dispatched to
ArchOf(sm) == IF sm < 75 THEN "Sm70" ELSE IF sm < 80 THEN "Sm75" ELSE "Sm80"

\* the tile tags the dispatch of precision path p on architecture arch hands on to
\* dispatch_gemm_config
AdmittedTiles(p, arch) ==
  {t \in TileConfigs :
     dispatch_moe_gemm_to_cutlass(p, arch, "EpilogueOpNoBias", BaseArgs,
                                  CutlassGemmConfig(t, "NO_SPLIT_K", 1, 2), 1, TRUE,
                                  ExtProbe(1)).err = "none"}

LaunchOrder == <<"maximum_active_blocks", "can_implement", "initialize", "run">>

IsLaunchStep(e) == e.op \in LaunchOps

\* the launch-mode steps the call has made, in order
LaunchSteps == SelectSeq(trace, IsLaunchStep)

(* C17: the launch-mode steps of a call are a prefix of occupancy check,   *)
(* can_implement, initialize, run, each made once and for one kernel; they *)
(* are the last things the call does; every step but the last succeeded;   *)
(* when the last one failed the call ended with that step's error, and     *)
(* otherwise all four were made and the call ended without error.          *)
C17_LaunchStepsInOrderOnce ==
  LET L == LaunchSteps
      n == Len(L)
  IN /\ n <= 4
     /\ \A i \in 1..n :
          /\ L[i].op = LaunchOrder[i]
          /\ L[i] = trace[Len(trace) - n + i]
          /\ L[i].kernel = L[1].kernel
          /\ i < n => L[i].ok
     /\ n > 0 =>
          /\ pc = "done"
          /\ ~dispatched.probe
          /\ err = OutcomeOf(L)
          /\ L[n].ok => n = 4

C17_Witness ==
  /\ RunCall
  /\ pc = "done"
  /\ err = "initialize"
  /\ Len(LaunchSteps) = 3
  /\ Len(Catalog) = 3

(* C19: moe_gemm_bias_act runs Relu under the bias+ReLU epilogue, Gelu     *)
(* under bias+GELU, Silu under bias+SiLU and Identity under the bias-only  *)
(* epilogue, and every kernel of the call, the probed ones and the         *)
(* launched one, is instantiated with that epilogue.                       *)
C19_ActivationEpilogueMap ==
  (pc # "idle" /\ args.entry = "moe_gemm_bias_act"
     /\ args.activation_type \in {"Relu", "Gelu", "Silu", "Identity"}) =>
    LET epi == CASE args.activation_type = "Relu" -> "EpilogueOpBiasReLU"
                 [] args.activation_type = "Gelu" -> "EpilogueOpBiasFtGelu"
                 [] args.activation_type = "Silu" -> "EpilogueOpBiasSilu"
                 [] args.activation_type = "Identity" -> "EpilogueOpBias"
    IN /\ EpilogueTag = epi
       /\ \A k \in 1..Len(trace) :
            trace[k].kernel # NoKernel => trace[k].kernel.epi = epi

C19_Witness ==
  /\ pc = "done"
  /\ args.entry = "moe_gemm_bias_act"
  /\ args.activation_type = "Gelu"
  /\ err = "none"
  /\ Cardinality(Probes) = 3
  /\ Launches # {}
  /\ trace[Len(trace)].kernel.epi = "EpilogueOpBiasFtGelu"

\* errors thrown on the way to the launcher, before it is entered
DispatchErrors == {"arch", "tile_undefined", "tile_heuristic", "tile_invalid",
                   "stages_config", "stages_arch"}

(* C20: on each of the three tiers and each precision path a dispatch of a *)
(* tile tag legal for the path with stages = 2 enters the launcher: it     *)
(* ends in none of the errors of the dispatch chain, and without split-k   *)
(* it ends in no configuration error and the kernel of depth 2 was queried *)
(* or taken to launch; on the top tier the same holds of stages 3 and 4 on *)
(* the two tensor-core paths.                                              *)
C20_Depth2LegalEverywhere ==
  (DispatchEnded /\ Supported(sm_) /\ dispatched.cfg.tile_config \in LegalTiles(path)
     /\ (dispatched.cfg.stages = 2
           \/ (TopTier(sm_) /\ path # "simt" /\ dispatched.cfg.stages \in {3, 4}))) =>
    /\ err \notin DispatchErrors
    /\ dispatched.cfg.split_k_style = "NO_SPLIT_K" =>
         /\ err \notin ConfigErrors
         /\ trace # <<>>
         /\ trace[Len(trace)].kernel = Kernel(ArchOf(sm_), dispatched.cfg.tile_config,
                                               dispatched.cfg.stages, EpilogueTag)

C20_Witness ==
  /\ DispatchEnded
  /\ sm_ = 70
  /\ path = "simt"
  /\ dispatched.cfg.stages = 2
  /\ ~dispatched.probe
  /\ err = "none"
  /\ Launches # {}

\* run_gemm run to its end without interruption on a runner of architecture sm,
\* multiprocessor count mpc and precision path p: a.s are the call's arguments, epi its
\* epilogue, answers the occupancies the device answers with, ext the results of the
\* launch.  The probes from candidate j on, after history tr:
RECURSIVE RunGemmAloneFrom(_, _, _, _, _, _, _, _, _, _)
RunGemmAloneFrom(sm, mpc, p, a, epi, cands, answers, ext, j, tr) ==
  IF j <= Len(cands)
    THEN LET r == dispatch_to_arch(p, sm, mpc, epi, a, cands[j], TRUE,
                                   ExtProbe(IF j <= Len(answers) THEN answers[j] ELSE 0))
         IN IF r.err # "none" THEN [err |-> r.err, trace |-> tr \o r.ev]
            ELSE RunGemmAloneFrom(sm, mpc, p, a, epi, cands, answers, ext, j + 1, tr \o r.ev)
    ELSE IF \A l \in 1..Len(cands) : answers[l] = 0
      THEN [err |-> "heuristic", trace |-> tr]
      ELSE LET cfg == SelectedBy(cands, answers, a.total_rows, a.gemm_n, mpc)
               r == dispatch_to_arch(p, sm, mpc, epi, a, cfg, FALSE, ext)
           IN [err |-> r.err,
               trace |-> tr \o <<Event("select", NoKernel, a, cfg,
                                       OccupancyOf(cfg, cands, answers), TRUE)>> \o r.ev]

RunGemmAlone(sm, mpc, p, a, epi, answers, ext) ==
  RunGemmAloneFrom(sm, mpc, p, a, epi,
                   get_candidate_configs(sm, is_weight_only(p), only_simt_configs(p)),
                   answers, ext, 1, <<>>)

(* C18: no step of a call changes sm_ or multi_processor_count_ (nor the   *)
(* element types); and with the calls of two host threads interleaved on   *)
(* one runner, each with its own stream and descriptor, every call that    *)
(* has entered run_gemm ends with the error and the history (queries,      *)
(* selection, launch steps, all on its own stream) that the same call has  *)
(* when it runs alone with the same answers of the device.                 *)
C18_RunnerStateReadOnly ==
  /\ [][(\E t \in Threads : threads[t].pc # "idle" \/ threads'[t].pc # "idle")
          => UNCHANGED <<sm_, multi_processor_count_, path>>]_vars
  /\ [](\A t \in Threads :
          LET c == threads[t]
          IN /\ \A k \in 1..Len(c.trace) : c.trace[k].stream = c.args.stream
             /\ (c.pc = "done" /\ c.EpilogueTag # "none") =>
                  [err |-> c.err, trace |-> c.trace]
                    = RunGemmAlone(sm_, multi_processor_count_, path, c.args, c.EpilogueTag,
                                   c.answers, c.ext))

C18_Witness ==
  /\ sm_ = 75
  /\ path = "uniform"
  /\ threads[1].pc = "launch"
  /\ threads[2].pc = "done"
  /\ threads[2].err = "none"
  /\ threads[1].chosen_config # threads[2].chosen_config
  /\ threads[1].answers = threads[2].answers

(* C21: on a supported tier a dispatch of a tile tag other than Undefined  *)
(* and ChooseWithHeuristic that is not among the tags of the runner's      *)
(* precision path ends in the invalid-configuration error of that path's   *)
(* dispatch with nothing done on the device: no query, no launch.          *)
C21_ForeignTileRejected ==
  (DispatchEnded /\ Supported(sm_)
     /\ dispatched.cfg.tile_config
          \in TileConfigs \ ({"Undefined", "ChooseWithHeuristic"} \cup LegalTiles(path))) =>
    /\ err = "tile_invalid"
    /\ trace = <<>>
    /\ Launches = {}

C21_Witness ==
  /\ DispatchEnded
  /\ path = "quantized"
  /\ TopTier(sm_)
  /\ dispatched.cfg.tile_config = "CtaShape64x128x64_WarpShape32x64x64"
  /\ dispatched.cfg.stages = 2
  /\ dispatched.cfg.split_k_style = "NO_SPLIT_K"
  /\ ~dispatched.probe
  /\ err = "tile_invalid"

(* C22: a run_gemm whose probe of a candidate throws ends there with that  *)
(* error: the history holds the queries of the candidates before it and    *)
(* nothing else (no later query, no selection, no launcher step); a call   *)
(* that ends in its first pass otherwise ends in the selector's error      *)
(* after all candidates were probed; on an unsupported architecture the    *)
(* call never gets past its first candidate.                               *)
C22_ProbeErrorAbortsCall ==
  RunCall =>
    /\ (pc = "done" /\ dispatched.made /\ dispatched.probe) =>
         \/ /\ err = "heuristic"
            /\ Len(trace) = Len(Catalog)
         \/ /\ err \in DispatchErrors \cup {"split_k"}
            /\ Len(trace) < Len(Catalog)
            /\ Probes = 1..Len(trace)
            /\ dispatched.cfg = Catalog[Len(trace) + 1]
    /\ (pc # "idle" /\ EpilogueTag # "none" /\ ~Supported(sm_)) =>
         \/ pc = "probe" /\ ii = 0 /\ trace = <<>>
         \/ pc = "done" /\ err = "arch" /\ trace = <<>> /\ dispatched.cfg = Catalog[1]

C22_Witness ==
  /\ RunCall
  /\ pc = "done"
  /\ sm_ = 90
  /\ path = "uniform"
  /\ err = "arch"
  /\ dispatched.probe
  /\ dispatched.cfg = Catalog[1]

\* the error of the first check that fails, in the order activation tag (calls of
\* moe_gemm_bias_act), architecture band, tile tag, pipeline depth, split-k style;
\* "none" when none of them fails
FirstFailingCheck(entry, activation_type, sm, p, cfg) ==
  IF entry = "moe_gemm_bias_act"
       /\ activation_type \notin {"Relu", "Gelu", "Silu", "Identity"} THEN "activation"
  ELSE IF ~Supported(sm) THEN "arch"
  ELSE IF cfg.tile_config = "Undefined" THEN "tile_undefined"
  ELSE IF cfg.tile_config = "ChooseWithHeuristic" THEN "tile_heuristic"
  ELSE IF cfg.tile_config \notin LegalTiles(p) THEN "tile_invalid"
  ELSE IF cfg.stages \notin {2, 3, 4} THEN "stages_config"
  ELSE IF cfg.stages > 2 /\ ~TopTier(sm) THEN "stages_arch"
  ELSE IF cfg.split_k_style # "NO_SPLIT_K" THEN "split_k"
  ELSE "none"

(* C23: a call ends with the error of the first failing check in the order *)
(* activation tag, architecture band, tile tag, pipeline depth, split-k    *)
(* style, and, when none of these fails and the dispatch is in launch      *)
(* mode, zero occupancy, can_implement, initialize, run; a dispatch in     *)
(* probe mode that passes the five checks ends without error.              *)
C23_FirstFailingCheckReported ==
  /\ (pc = "done" /\ args.entry = "moe_gemm_bias_act" /\ ~dispatched.made) =>
       err = FirstFailingCheck(args.entry, args.activation_type, sm_, path, dispatched.cfg)
  /\ DispatchEnded =>
       LET first == FirstFailingCheck(args.entry, args.activation_type, sm_, path,
                                      dispatched.cfg)
       IN /\ first # "none" => (err = first /\ trace = <<>>)
          /\ (first = "none" /\ dispatched.probe) => err = "none"
          /\ (first = "none" /\ ~dispatched.probe) =>
               (LaunchSteps # <<>> /\ err = OutcomeOf(LaunchSteps))

C23_Witness ==
  /\ DispatchEnded
  /\ sm_ = 75
  /\ dispatched.cfg.tile_config \in LegalTiles(path)
  /\ dispatched.cfg.stages = 3
  /\ dispatched.cfg.split_k_style = "SPLIT_K_SERIAL"
  /\ err = "stages_arch"

(* C24: once run_gemm has probed every candidate without error and has     *)
(* selected one of them, its second pass enters the launcher: the call     *)
(* ends without error or in the error of a launcher step (zero occupancy,  *)
(* can_implement, initialize, run), never in an architecture, tile-tag,    *)
(* pipeline-depth or split-k error.                                        *)
C24_SecondPassNoConfigurationError ==
  (RunCall /\ pc = "done" /\ Selections # {}) =>
    /\ Cardinality(Probes) = Len(Catalog)
    /\ \E j \in 1..Len(Catalog) : Catalog[j] = dispatched.cfg
    /\ ~dispatched.probe
    /\ err \in {"none", "occupancy", "can_implement", "initialize", "run"}
    /\ LaunchSteps # <<>>

C24_Witness ==
  /\ RunCall
  /\ pc = "done"
  /\ sm_ = 75
  /\ path = "uniform"
  /\ Selections # {}
  /\ err = "can_implement"
  /\ dispatched.cfg = Catalog[2]

====
